---------------------------- MODULE Spec2Model ----------------------------
(***************************************************************************)
(* Model of Kinematics.py: the Quaternion value type, the EulerAngles      *)
(* value type and the Kinematics attitude tracker.                         *)
(*                                                                         *)
(* Arithmetic.  The program computes in IEEE doubles.  The model computes  *)
(* exactly in the field Q(sqrt 2, sqrt 3): a number is the tuple           *)
(* <<a, b, c, d, n>> standing for (a + b*sqrt2 + c*sqrt3 + d*sqrt6) / n,   *)
(* n > 0, in lowest terms.  That field holds the sines and cosines of all  *)
(* multiples of 15 degrees, hence every quaternion built from Euler angles *)
(* that are multiples of 30 degrees, and the normalised form of every      *)
(* quaternion with components in {-1, 0, 1}.  Rounding error and signed    *)
(* zeros are not modelled; angles are whole degrees.                       *)
(***************************************************************************)
EXTENDS Integers, Sequences, FiniteSets, TLC

(***************************************************************************)
(* Numbers.  Every operator binds each parameter once (u \in {u0}): TLC     *)
(* then evaluates every argument expression once, however often the body   *)
(* reads it.                                                               *)
(***************************************************************************)
The(S) == CHOOSE r \in S : TRUE

Abs(i) == IF i < 0 THEN -i ELSE i

RECURSIVE GCD(_, _)
GCD(i, j) == IF j = 0 THEN Abs(i) ELSE GCD(j, i % Abs(j))

\* (a + b*sqrt2 + c*sqrt3 + d*sqrt6) / n in lowest terms, n > 0
Num(a0, b0, c0, d0, n0) ==
    The({ The({ <<t[1] \div g, t[2] \div g, t[3] \div g, t[4] \div g, t[5] \div g>> :
                g \in {(IF t[5] < 0 THEN -1 ELSE 1)
                         * GCD(GCD(GCD(t[1], t[2]), GCD(t[3], t[4])), t[5])} }) :
          t \in {<<a0, b0, c0, d0, n0>>} })

Whole(i) == <<i, 0, 0, 0, 1>>
Zero == Whole(0)
One == Whole(1)
Two == Whole(2)

Neg(u0) == The({ <<-u[1], -u[2], -u[3], -u[4], u[5]>> : u \in {u0} })

Add(u0, v0) ==
    The({ Num(u[1] * v[5] + v[1] * u[5], u[2] * v[5] + v[2] * u[5],
              u[3] * v[5] + v[3] * u[5], u[4] * v[5] + v[4] * u[5], u[5] * v[5]) :
          u \in {u0}, v \in {v0} })

Sub(u, v) == Add(u, Neg(v))

Mul(u0, v0) ==
    The({ Num(u[1] * v[1] + 2 * u[2] * v[2] + 3 * u[3] * v[3] + 6 * u[4] * v[4],
              u[1] * v[2] + u[2] * v[1] + 3 * (u[3] * v[4] + u[4] * v[3]),
              u[1] * v[3] + u[3] * v[1] + 2 * (u[2] * v[4] + u[4] * v[2]),
              u[1] * v[4] + u[4] * v[1] + u[2] * v[3] + u[3] * v[2],
              u[5] * v[5]) :
          u \in {u0}, v \in {v0} })

Sq(u0) == The({ Mul(u, u) : u \in {u0} })

\* sign of a number: -1, 0 or 1.  The numerator is evaluated with the square
\* roots to four decimals; a value too close to zero for that to decide has
\* no CASE arm, so the evaluation stops rather than guess.
Sign(u0) ==
    The({ The({ CASE u[1] = 0 /\ u[2] = 0 /\ u[3] = 0 /\ u[4] = 0 -> 0
                  [] approx > Abs(u[2]) + Abs(u[3]) + Abs(u[4]) -> 1
                  [] approx < -(Abs(u[2]) + Abs(u[3]) + Abs(u[4])) -> -1 :
                approx \in {10000 * u[1] + 14142 * u[2] + 17321 * u[3] + 24495 * u[4]} }) :
          u \in {u0} })

Geq(u, v) == Sign(Sub(u, v)) >= 0
Leq(u, v) == Sign(Sub(u, v)) <= 0

\* math.sqrt on the values magnitude() hands it: a non-negative rational p/n
\* with p*n = s*s*t and t one of 1, 2, 3, 6; the root is s*sqrt(t)/n
Sqrt(u0) ==
    The({ IF u = Zero THEN Zero
          ELSE The({ CASE u[2] = 0 /\ u[3] = 0 /\ u[4] = 0 /\ st[2] = 1 -> Num(st[1], 0, 0, 0, u[5])
                       [] u[2] = 0 /\ u[3] = 0 /\ u[4] = 0 /\ st[2] = 2 -> Num(0, st[1], 0, 0, u[5])
                       [] u[2] = 0 /\ u[3] = 0 /\ u[4] = 0 /\ st[2] = 3 -> Num(0, 0, st[1], 0, u[5])
                       [] u[2] = 0 /\ u[3] = 0 /\ u[4] = 0 /\ st[2] = 6 -> Num(0, 0, 0, st[1], u[5]) :
                     st \in {CHOOSE st \in (0..(u[1] * u[5])) \X {1, 2, 3, 6} :
                               st[1] * st[1] * st[2] = u[1] * u[5]} }) :
          u \in {u0} })

\* u / m for the m that Sqrt returns (one non-zero coefficient), m # 0
Div(u0, m0) ==
    The({ Mul(u, CASE m[1] # 0 -> Num(m[5], 0, 0, 0, m[1])
                   [] m[2] # 0 -> Num(0, m[5], 0, 0, 2 * m[2])
                   [] m[3] # 0 -> Num(0, 0, m[5], 0, 3 * m[3])
                   [] m[4] # 0 -> Num(0, 0, 0, m[5], 6 * m[4])) :
          u \in {u0}, m \in {m0} })

(***************************************************************************)
(* math.cos, math.sin, math.atan2, math.asin on the angles that occur      *)
(***************************************************************************)
\* cos(k * 15 degrees) for k in 0..6
Cos15FirstQuadrant(j) ==
    CASE j = 0 -> One
      [] j = 1 -> <<0, 1, 0, 1, 4>>
      [] j = 2 -> <<0, 0, 1, 0, 2>>
      [] j = 3 -> <<0, 1, 0, 0, 2>>
      [] j = 4 -> <<1, 0, 0, 0, 2>>
      [] j = 5 -> <<0, -1, 0, 1, 4>>
      [] j = 6 -> Zero

\* cos(k * 15 degrees); the argument of math.cos is a half angle in radians
MathCos15(k) ==
    The({ IF r <= 6 THEN Cos15FirstQuadrant(r)
          ELSE IF r <= 12 THEN Neg(Cos15FirstQuadrant(12 - r))
          ELSE IF r <= 18 THEN Neg(Cos15FirstQuadrant(r - 12))
          ELSE Cos15FirstQuadrant(24 - r) :
          r \in {k % 24} })

\* sin(k * 15 degrees)
MathSin15(k) == MathCos15(k - 6)

\* math.atan2(y, x) / math.pi * 180.0: the angle in (-180, 180] of the point
\* (x, y); atan2(0, 0) is 0
MathAtan2(y0, x0) ==
    The({ IF y = Zero /\ x = Zero THEN 0
          ELSE 15 * (CHOOSE k \in -11..12 :
                       /\ Sign(y) = Sign(MathSin15(k))
                       /\ Sign(x) = Sign(MathCos15(k))
                       /\ Mul(y, MathCos15(k)) = Mul(x, MathSin15(k))) :
          y \in {y0}, x \in {x0} })

\* math.asin(v) / math.pi * 180.0 for -1 < v < 1
MathAsin(v0) == The({ 15 * (CHOOSE k \in -5..5 : MathSin15(k) = v) : v \in {v0} })

\* _wrap_asin(v) / math.pi * 180.0
wrap_asin(v0) ==
    The({ IF Geq(v, One) THEN 90
          ELSE IF Leq(v, Neg(One)) THEN -90
          ELSE MathAsin(v) :
          v \in {v0} })

(***************************************************************************)
(* class Quaternion: a quaternion is <<w, x, y, z>>                        *)
(***************************************************************************)
\* The quaternions the tracker meets: the 48 unit quaternions of the rotations
\* that map the axes onto axes (closed under productOf and conjugate) and the
\* all-zero quaternion.  normalise, productOf and toEuler are evaluated once
\* on them and looked up afterwards; on any other argument they are computed
\* on the spot.  (@@ <<>> makes TLC store a table instead of its rule.)
Rotations ==
    LET S == {One, Neg(One)}
        H == {<<1, 0, 0, 0, 2>>, <<-1, 0, 0, 0, 2>>}
        R == {<<0, 1, 0, 0, 2>>, <<0, -1, 0, 0, 2>>}
        O == {Zero}
    IN  (S \X O \X O \X O) \cup (O \X S \X O \X O) \cup (O \X O \X S \X O)
          \cup (O \X O \X O \X S) \cup (H \X H \X H \X H)
          \cup (R \X R \X O \X O) \cup (R \X O \X R \X O) \cup (R \X O \X O \X R)
          \cup (O \X R \X R \X O) \cup (O \X R \X O \X R) \cup (O \X O \X R \X R)
          \cup (O \X O \X O \X O)

magnitude(q0) ==
    The({ Sqrt(Add(Add(Sq(q[1]), Sq(q[2])), Add(Sq(q[3]), Sq(q[4])))) : q \in {q0} })

\* normalise() left out
normaliseSkipped(q0) == q0

\* the first division raises ZeroDivisionError when m is zero, before any
\* component is changed, and the handler passes
normaliseDirect(q0) ==
    The({ IF m = Zero THEN q
          ELSE <<Div(q[1], m), Div(q[2], m), Div(q[3], m), Div(q[4], m)>> :
          q \in {q0}, m \in {magnitude(q0)} })

NormaliseTable == [q \in Rotations |-> normaliseDirect(q)] @@ <<>>

normalise(q0) ==
    The({ IF q \in Rotations THEN NormaliseTable[q] ELSE normaliseDirect(q) : q \in {q0} })

Quaternion(w, x, y, z) == normalise(<<w, x, y, z>>)

conjugate(q0) == The({ Quaternion(q[1], Neg(q[2]), Neg(q[3]), Neg(q[4])) : q \in {q0} })

\* productOf with the x and y components handed to Quaternion() in the wrong
\* order
productOfSwappedXY(self0, q0) ==
    The({ Quaternion(
            Sub(Sub(Sub(Mul(self[1], q[1]), Mul(self[2], q[2])), Mul(self[3], q[3])),
                Mul(self[4], q[4])),
            Add(Add(Sub(Mul(self[1], q[3]), Mul(self[2], q[4])), Mul(self[3], q[1])),
                Mul(self[4], q[2])),
            Sub(Add(Add(Mul(self[1], q[2]), Mul(self[2], q[1])), Mul(self[3], q[4])),
                Mul(self[4], q[3])),
            Add(Sub(Add(Mul(self[1], q[4]), Mul(self[2], q[3])), Mul(self[3], q[2])),
                Mul(self[4], q[1]))) :
          self \in {self0}, q \in {q0} })

\* self.productOf(q)
productOfDirect(self0, q0) ==
    The({ Quaternion(
            Sub(Sub(Sub(Mul(self[1], q[1]), Mul(self[2], q[2])), Mul(self[3], q[3])),
                Mul(self[4], q[4])),
            Sub(Add(Add(Mul(self[1], q[2]), Mul(self[2], q[1])), Mul(self[3], q[4])),
                Mul(self[4], q[3])),
            Add(Add(Sub(Mul(self[1], q[3]), Mul(self[2], q[4])), Mul(self[3], q[1])),
                Mul(self[4], q[2])),
            Add(Sub(Add(Mul(self[1], q[4]), Mul(self[2], q[3])), Mul(self[3], q[2])),
                Mul(self[4], q[1]))) :
          self \in {self0}, q \in {q0} })

ProductTable == [p \in Rotations \X Rotations |-> productOfDirect(p[1], p[2])] @@ <<>>

productOf(self0, q0) ==
    The({ IF self \in Rotations /\ q \in Rotations THEN ProductTable[<<self, q>>]
          ELSE productOfDirect(self, q) :
          self \in {self0}, q \in {q0} })

\* self.difference(q)
difference(self, q) == productOf(q, conjugate(self))

\* toEuler returning EulerAngles(roll, pitch, yaw)
toEulerRollFirst(q0) ==
    The({ <<MathAtan2(Mul(Two, Add(Mul(q[1], q[2]), Mul(q[3], q[4]))),
                      Sub(One, Mul(Two, Add(Sq(q[2]), Sq(q[3]))))),
            wrap_asin(Mul(Two, Sub(Mul(q[1], q[3]), Mul(q[4], q[2])))),
            MathAtan2(Mul(Two, Add(Mul(q[1], q[4]), Mul(q[2], q[3]))),
                      Sub(One, Mul(Two, Add(Sq(q[3]), Sq(q[4])))))>> :
          q \in {q0} })

\* an EulerAngles value is <<yaw, pitch, roll>> in whole degrees
toEulerDirect(q0) ==
    The({ <<MathAtan2(Mul(Two, Add(Mul(q[1], q[4]), Mul(q[2], q[3]))),
                      Sub(One, Mul(Two, Add(Sq(q[3]), Sq(q[4]))))),
            wrap_asin(Mul(Two, Sub(Mul(q[1], q[3]), Mul(q[4], q[2])))),
            MathAtan2(Mul(Two, Add(Mul(q[1], q[2]), Mul(q[3], q[4]))),
                      Sub(One, Mul(Two, Add(Sq(q[2]), Sq(q[3])))))>> :
          q \in {q0} })

EulerTable == [q \in Rotations |-> toEulerDirect(q)] @@ <<>>

toEuler(q0) ==
    The({ IF q \in Rotations THEN EulerTable[q] ELSE toEulerDirect(q) : q \in {q0} })

(***************************************************************************)
(* class EulerAngles                                                       *)
(***************************************************************************)
getYaw(e) == e[1]
getPitch(e) == e[2]
getRoll(e) == e[3]

\* w, x, y, z from <<cosRoll, sinRoll, cosPitch, sinPitch, cosYaw, sinYaw>>
HalfAngleProducts(t0) ==
    The({ Quaternion(
            Add(Mul(Mul(t[1], t[3]), t[5]), Mul(Mul(t[2], t[4]), t[6])),
            Sub(Mul(Mul(t[2], t[3]), t[5]), Mul(Mul(t[1], t[4]), t[6])),
            Add(Mul(Mul(t[1], t[4]), t[5]), Mul(Mul(t[2], t[3]), t[6])),
            Sub(Mul(Mul(t[1], t[3]), t[6]), Mul(Mul(t[2], t[4]), t[5]))) :
          t \in {t0} })

\* angles are multiples of 30 degrees, so that angle * pi / 180 * 0.5 is a
\* multiple of 15 degrees
toQuaternion(e0) ==
    The({ HalfAngleProducts(
            <<MathCos15(getRoll(e) \div 30), MathSin15(getRoll(e) \div 30),
              MathCos15(getPitch(e) \div 30), MathSin15(getPitch(e) \div 30),
              MathCos15(getYaw(e) \div 30), MathSin15(getYaw(e) \div 30)>>) :
          e \in {e0} })

(***************************************************************************)
(* class Kinematics(Quaternion): the tracker                               *)
(***************************************************************************)
\* the clock may be read this many ticks after construction
MaxClock == 2

VARIABLES
    wxyz,          \* self.w, self.x, self.y, self.z: the current attitude
    target,        \* the value of the object self.target refers to
    targetIsSelf,  \* TRUE when self.target refers to the tracker itself
    time,          \* self.time
    degSecYPR,     \* self.degSecYPR: three ratios <<degrees, seconds>>
    error,         \* self.error
    clock,         \* what time.time() returns
    raised,        \* the last call ended in an uncaught ZeroDivisionError
    call,          \* the last call: its name and its arguments' values
    targetBefore,  \* the target before the last call, kept for rotateTarget
    calc           \* a conversion or product carried out on its own

tracker == <<wxyz, target, targetIsSelf, time, degSecYPR, error, clock, raised,
             call, targetBefore>>

vars == <<tracker, calc>>

Off == [pc |-> "off"]

Identity == Quaternion(Whole(1), Whole(0), Whole(0), Whole(0))

\* the attitude samples callers pass to update: the default quaternion and
\* test2's Quaternion(1,1,0,0), a quarter turn of roll
Attitudes ==
    { Identity, Quaternion(Whole(1), Whole(1), Whole(0), Whole(0)) }

\* the quaternions callers pass as a target or as a rotation of the target:
\* those, and a half turn of pitch built from Euler angles as in test3
Targets == Attitudes \cup { toQuaternion(<<0, 180, 0>>) }

\* the components a tracker is constructed with
InitialComponents ==
    { <<1, 0, 0, 0>>, <<1, 1, 0, 0>>, <<0, 0, 0, 0>> }

\* n / d as a ratio in lowest terms
Ratio(n, d) == <<n \div GCD(n, d), d \div GCD(n, d)>>

ZeroYPR == <<Ratio(0, 1), Ratio(0, 1), Ratio(0, 1)>>

\* __init__ starting from the default target instead of the current attitude
KinematicsDefaultTarget(c) ==
    /\ wxyz = Quaternion(Whole(c[1]), Whole(c[2]), Whole(c[3]), Whole(c[4]))
    /\ target = Identity
    /\ targetIsSelf = FALSE
    /\ clock = 0
    /\ time = clock
    /\ degSecYPR = ZeroYPR
    /\ error = difference(wxyz, target)
    /\ raised = FALSE
    /\ call = [op |-> "init", attitude |-> wxyz,
               q |-> <<Whole(c[1]), Whole(c[2]), Whole(c[3]), Whole(c[4])>>]
    /\ targetBefore = Identity

\* Kinematics.__init__(w, x, y, z) with c = <<w, x, y, z>>; call.q keeps the
\* components as they were passed
Kinematics(c) ==
    /\ wxyz = Quaternion(Whole(c[1]), Whole(c[2]), Whole(c[3]), Whole(c[4]))
    /\ target = wxyz
    /\ targetIsSelf = TRUE
    /\ clock = 0
    /\ time = clock
    /\ degSecYPR = ZeroYPR
    /\ error = difference(wxyz, target)
    /\ raised = FALSE
    /\ call = [op |-> "init", attitude |-> wxyz,
               q |-> <<Whole(c[1]), Whole(c[2]), Whole(c[3]), Whole(c[4])>>]
    /\ targetBefore = Identity

Init ==
    /\ \E c \in InitialComponents : Kinematics(c)
    /\ calc = Off

\* time.time() moves on between calls
Tick ==
    /\ clock < MaxClock
    /\ clock' = clock + 1
    /\ UNCHANGED <<wxyz, target, targetIsSelf, time, degSecYPR, error, raised,
                   call, targetBefore, calc>>

\* Kinematics.update(attitude, target) on a tracker whose self.target is
\* already tgt0; isSelf says that the target argument is the tracker itself,
\* whose components the call overwrites.  The division by a zero dt raises
\* after the time, the attitude and the target are stored and before the
\* velocity and the error are.
update(attitude, tgt, isSelf) ==
    \E dt \in {clock - time},
       prev \in {Quaternion(wxyz[1], wxyz[2], wxyz[3], wxyz[4])},
       newTarget \in {IF isSelf THEN attitude ELSE tgt} :
      \E delta \in {toEuler(difference(prev, attitude))} :
        /\ time' = clock
        /\ wxyz' = attitude
        /\ target' = newTarget
        /\ targetIsSelf' = isSelf
        /\ IF dt = 0
           THEN /\ raised' = TRUE
                /\ UNCHANGED <<degSecYPR, error>>
           ELSE /\ raised' = FALSE
                /\ degSecYPR' = <<Ratio(getYaw(delta), dt), Ratio(getPitch(delta), dt),
                                  Ratio(getRoll(delta), dt)>>
                /\ error' = difference(attitude, newTarget)
        /\ UNCHANGED <<clock, calc>>

\* k.update(attitude, q) with a quaternion q the caller constructed
Update(attitude, q) ==
    /\ update(attitude, q, FALSE)
    /\ call' = [op |-> "update", attitude |-> attitude, q |-> q]
    /\ targetBefore' = Identity

\* k.update(attitude, k.target): the caller hands the tracker's own target back
UpdateKeepTarget(attitude) ==
    /\ update(attitude, target, targetIsSelf)
    /\ call' = [op |-> "update", attitude |-> attitude, q |-> target]
    /\ targetBefore' = Identity

\* setTarget handing q to update as the attitude too
setTargetAsAttitude(q) ==
    /\ update(q, q, FALSE)
    /\ call' = [op |-> "setTarget", attitude |-> wxyz, q |-> q]
    /\ targetBefore' = Identity

\* Kinematics.setTarget(q)
setTarget(q) ==
    /\ update(wxyz, q, FALSE)
    /\ call' = [op |-> "setTarget", attitude |-> wxyz, q |-> q]
    /\ targetBefore' = Identity

\* rotateTarget computing q.productOf(self.target)
rotateTargetPreMultiplied(q) ==
    /\ \E t \in {productOf(q, target)} : update(wxyz, t, FALSE)
    /\ call' = [op |-> "rotateTarget", attitude |-> wxyz, q |-> q]
    /\ targetBefore' = target

\* Kinematics.rotateTarget(q)
rotateTarget(q) ==
    /\ \E t \in {productOf(target, q)} : update(wxyz, t, FALSE)
    /\ call' = [op |-> "rotateTarget", attitude |-> wxyz, q |-> q]
    /\ targetBefore' = target

Next ==
    \/ Tick
    \/ \E a \in Attitudes \cup {wxyz}, q \in Targets : Update(a, q)
    \/ \E a \in Attitudes : UpdateKeepTarget(a)
    \/ \E q \in Targets : setTarget(q)
    \/ \E q \in Targets : rotateTarget(q)

Spec == Init /\ [][Next]_vars

(***************************************************************************)
(* EulerAngles(yaw, pitch, roll).toQuaternion().toEuler() on its own       *)
(***************************************************************************)
\* yaw and roll run over the multiples of 30 degrees up to this many steps
\* either way, pitch up to MaxPitchSteps
MaxTurnSteps == 8
MaxPitchSteps == 3

TurnAngles == {30 * k : k \in -MaxTurnSteps..MaxTurnSteps}
PitchAngles == {30 * k : k \in -MaxPitchSteps..MaxPitchSteps}

\* EulerAngles.__init__
InitEuler ==
    /\ Kinematics(<<1, 0, 0, 0>>)
    /\ \E yaw \in TurnAngles, pitch \in PitchAngles, roll \in TurnAngles :
         calc = [pc |-> "EulerAngles", e |-> <<yaw, pitch, roll>>]

ToQuaternion ==
    /\ calc.pc = "EulerAngles"
    /\ calc' = [pc |-> "toQuaternion", e |-> calc.e, q |-> toQuaternion(calc.e)]
    /\ UNCHANGED tracker

ToEuler ==
    /\ calc.pc = "toQuaternion"
    /\ calc' = [pc |-> "toEuler", e |-> calc.e, q |-> calc.q, back |-> toEuler(calc.q)]
    /\ UNCHANGED tracker

NextEuler == ToQuaternion \/ ToEuler

SpecEuler == InitEuler /\ [][NextEuler]_vars

(***************************************************************************)
(* productOf on its own                                                    *)
(***************************************************************************)
\* quaternions as callers construct them, from components and from Euler
\* angles
Samples ==
    { Identity,
      Quaternion(Whole(1), Whole(1), Whole(0), Whole(0)),
      Quaternion(Whole(1), Whole(-1), Whole(1), Whole(1)),
      Quaternion(Whole(1), Whole(1), Whole(1), Whole(0)),
      Quaternion(Whole(0), Whole(0), Whole(0), Whole(0)),
      toQuaternion(<<0, 180, 0>>),
      toQuaternion(<<90, 30, 0>>),
      toQuaternion(<<30, 60, -30>>) }

InitProduct ==
    /\ Kinematics(<<1, 0, 0, 0>>)
    /\ \E a \in Samples, b \in Samples, c \in Samples :
         calc = [pc |-> "operands", a |-> a, b |-> b, c |-> c]

\* a.productOf(b), b.productOf(a), (a.productOf(b)).productOf(c) and
\* a.productOf(b.productOf(c))
Multiply ==
    /\ calc.pc = "operands"
    /\ \E ab \in {productOf(calc.a, calc.b)}, bc \in {productOf(calc.b, calc.c)} :
         calc' = [pc |-> "productOf", a |-> calc.a, b |-> calc.b, c |-> calc.c,
                  ab |-> ab, ba |-> productOf(calc.b, calc.a),
                  ab_c |-> productOf(ab, calc.c), a_bc |-> productOf(calc.a, bc)]
    /\ UNCHANGED tracker

NextProduct == Multiply

SpecProduct == InitProduct /\ [][NextProduct]_vars

(***************************************************************************)
(* Properties                                                              *)
(***************************************************************************)
ZeroQuaternion == <<Zero, Zero, Zero, Zero>>

NormSq(q) == Add(Add(Sq(q[1]), Sq(q[2])), Add(Sq(q[3]), Sq(q[4])))

IsUnit(q) == NormSq(q) = One

\* q is raw scaled to magnitude 1 (same direction), or raw itself when raw is
\* all zero
IsNormalised(raw, q) ==
    IF raw = ZeroQuaternion THEN q = raw
    ELSE /\ IsUnit(q)
         /\ \A i \in 1..4 : \A j \in 1..4 : Mul(q[i], raw[j]) = Mul(q[j], raw[i])
         /\ Sign(Add(Add(Mul(q[1], raw[1]), Mul(q[2], raw[2])),
                     Add(Mul(q[3], raw[3]), Mul(q[4], raw[4])))) = 1

\* n / d as IEEE division gives it: <<1, 0>>, <<-1, 0>> and <<0, 0>> stand
\* for +inf, -inf and NaN
FloatDivide(n, d) ==
    IF d = 0 THEN <<IF n > 0 THEN 1 ELSE IF n < 0 THEN -1 ELSE 0, 0>>
    ELSE Ratio(n, d)

NonFinite(v) == v[2] = 0

\* C1: in every reachable state the cached error equals
\* current.difference(target) for the current attitude and target stored at
\* that moment.
C1_ErrorNeverStale == error = difference(wxyz, target)

\* C2: a call of update (direct or through setTarget/rotateTarget) with a zero
\* time delta completes without raising, stores a non-finite velocity on every
\* axis, and stores the new attitude, the target and the recomputed error.
C2_ZeroDtCompletes ==
    [][(clock' = clock /\ clock = time)
         => /\ ~raised'
            /\ \A i \in 1..3 : NonFinite(degSecYPR'[i])
            /\ wxyz' = call'.attitude
            /\ error' = difference(wxyz', target')]_vars

\* C3: every update call (direct or through setTarget/rotateTarget) advances
\* the timestamp to now and sets the velocity to the Euler angles of
\* prev.difference(attitude) divided by dt; when dt > 0 and the attitude passed
\* is the current one, the velocity is zero and the error is the rotation of
\* the target passed relative to the current attitude.
C3_VelocityIsDeltaOverDt ==
    [][clock' = clock
         => \E dt \in {clock - time}, delta \in {toEuler(difference(wxyz, call'.attitude))} :
              /\ time' = clock
              /\ degSecYPR' = <<FloatDivide(getYaw(delta), dt),
                                FloatDivide(getPitch(delta), dt),
                                FloatDivide(getRoll(delta), dt)>>
              /\ (dt > 0 /\ call'.attitude = wxyz)
                   => /\ degSecYPR' = ZeroYPR
                      /\ error' = difference(wxyz, target')]_vars

\* C4: setTarget(q) with dt > 0 leaves the current attitude unchanged, sets the
\* target to q, the velocity to zero on all three axes and the error to
\* current.difference(q), whatever calls came before.
C4_SetTargetOnlyRetargets ==
    (call.op = "setTarget" /\ ~raised)
      => /\ wxyz = call.attitude
         /\ target = call.q
         /\ degSecYPR = ZeroYPR
         /\ error = difference(call.attitude, call.q)

C4_Witness ==
    /\ call.op = "setTarget" /\ ~raised
    /\ wxyz \notin {Identity, ZeroQuaternion}
    /\ target # wxyz
    /\ time = 2

\* C5: rotateTarget(q) replaces the target by old_target.productOf(q) and
\* leaves the current attitude unchanged; after rotateTarget(q1) and then
\* rotateTarget(q2) on a target t0 the target is
\* (t0.productOf(q1)).productOf(q2), also when t0 is the target set at
\* construction.
C5_RotateTargetPostMultiplies ==
    /\ [](call.op = "rotateTarget"
            => /\ target = productOf(targetBefore, call.q)
               /\ wxyz = call.attitude)
    /\ [][(call.op = "rotateTarget" /\ call'.op = "rotateTarget" /\ clock' = clock)
            => target' = productOf(productOf(targetBefore, call.q), call'.q)]_vars

C5_Witness ==
    /\ call.op = "rotateTarget"
    /\ target # call.q
    /\ target # productOf(call.q, targetBefore)
    /\ wxyz # target

\* C6: right after construction the current attitude is the normalised
\* initial attitude, the target has the value of the current attitude, the
\* error is the identity quaternion unless the attitude is all zero, and the
\* velocity is (0, 0, 0).
C6_Constructed ==
    call.op = "init"
      => /\ IsNormalised(call.q, wxyz)
         /\ target = wxyz
         /\ (wxyz # ZeroQuaternion => error = Identity)
         /\ degSecYPR = ZeroYPR

C6_Witness ==
    /\ call.op = "init"
    /\ calc = Off
    /\ call.q # wxyz
    /\ error = Identity

InRange(e) == -90 < getPitch(e) /\ getPitch(e) < 90

\* C8 as stated: for pitch strictly between -90 and 90 and any yaw and roll,
\* EulerAngles(yaw, pitch, roll).toQuaternion().toEuler() gives back the same
\* yaw, pitch and roll.
C8_RoundTripExact ==
    (calc.pc = "toEuler" /\ InRange(calc.e)) => calc.back = calc.e

\* C8 as amended: for pitch strictly between -90 and 90 the round trip gives
\* back the pitch, and the yaw and the roll up to whole turns, as angles in
\* (-180, 180]; so it gives back yaw and roll themselves exactly when they lie
\* in (-180, 180].
C8_RoundTripModuloTurns ==
    (calc.pc = "toEuler" /\ InRange(calc.e))
      => /\ getPitch(calc.back) = getPitch(calc.e)
         /\ \A i \in {1, 3} :
              /\ (calc.back[i] - calc.e[i]) % 360 = 0
              /\ -180 < calc.back[i] /\ calc.back[i] <= 180

C8_Witness ==
    /\ calc.pc = "toEuler"
    /\ calc.e = <<210, 60, -30>>
    /\ calc.back = <<-150, 60, -30>>

\* C9: productOf is associative, (a.productOf(b)).productOf(c) =
\* a.productOf(b.productOf(c)), and not commutative: there are non-identity
\* unit quaternions a, b with a.productOf(b) # b.productOf(a).
C9_AssociativeNotCommutative ==
    /\ calc.pc = "productOf" => calc.ab_c = calc.a_bc
    /\ \E a \in Samples, b \in Samples :
         /\ IsUnit(a) /\ IsUnit(b) /\ a # Identity /\ b # Identity
         /\ productOf(a, b) # productOf(b, a)

C9_Witness ==
    /\ calc.pc = "productOf"
    /\ IsUnit(calc.a) /\ IsUnit(calc.b) /\ IsUnit(calc.c)
    /\ Identity \notin {calc.a, calc.b, calc.c}
    /\ calc.a \notin Rotations /\ calc.b \notin Rotations
    /\ calc.ab # calc.ba
    /\ calc.ab_c = calc.a_bc

\* C10: an update(attitude, t) call leaves the stored target equal to the
\* value t had when it was passed, also when t is the tracker's existing
\* target and the attitude differs, and the error is then
\* newCurrent.difference(oldTarget).
C10_TargetKeepsItsValue ==
    (call.op = "update" /\ ~raised)
      => /\ target = call.q
         /\ error = difference(wxyz, call.q)

=============================================================================
